---- MODULE Spec2Model ----
(***************************************************************************)
(* The PII identity form: sanitizer, SSN/phone formatters, the SSN mask    *)
(* controller, the zod schema, and the TanStack-Form based coordinator     *)
(* (IdentityForm) that validates on blur and on submit and hands the       *)
(* parsed payload to the react-query mutation.                             *)
(*                                                                         *)
(* Strings are TLA+ strings; TLC evaluates Len, SubSeq and \o on them, so  *)
(* the character at 1-based position i of s is SubSeq(s, i, i).            *)
(***************************************************************************)
EXTENDS Integers, Sequences, FiniteSets, TLC

VARIABLES
    values,      \* form.state.values: field name -> string (consent: BOOLEAN)
    errBlur,     \* field.state.meta.errorMap.onBlur per field ("" = undefined)
    errSubmit,   \* field.state.meta.errorMap.onSubmit per field ("" = undefined)
    visible,     \* SSNInput's useState(false): TRUE = Revealed, FALSE = Hidden
    focus,       \* the field holding input focus, or "none"
    mutation,    \* the react-query mutation observer: status and error
    requests,    \* bodies of the fetch calls issued and not yet settled
    lastSubmit,  \* what the submit event did when the last step was one,
                 \* "none" after any other step (history)
    probe        \* a call of a pure library function: its name, argument
                 \* and result (used by SpecPure only)

vars == <<values, errBlur, errSubmit, visible, focus, mutation, requests,
          lastSubmit, probe>>

-----------------------------------------------------------------------------
(* Bounds of the model.                                                    *)

\* Cap on the transport calls in flight that the model follows.
MaxInFlight == 2

-----------------------------------------------------------------------------
(* Characters and JavaScript string primitives.                            *)

Digits == {"0", "1", "2", "3", "4", "5", "6", "7", "8", "9"}

LowerCase == "abcdefghijklmnopqrstuvwxyz"

UpperCase == "ABCDEFGHIJKLMNOPQRSTUVWXYZ"

\* The model's stand-in for U+0000, which a TLA+ string cannot hold.
NUL == "@"

WhiteSpace == {" ", "\t", "\n"}

Min(a, b) == IF a < b THEN a ELSE b

Max(a, b) == IF a > b THEN a ELSE b

CharAt(s, i) == IF i >= 1 /\ i <= Len(s) THEN SubSeq(s, i, i) ELSE ""

IsDigit(c) == c \in Digits

LowerLetters == {SubSeq(LowerCase, k, k) : k \in 1..26}

UpperLetters == {SubSeq(UpperCase, k, k) : k \in 1..26}

IsLetter(c) == c \in LowerLetters \/ c \in UpperLetters

\* String.prototype.slice(a, b) for 0 <= a: 0-based, end exclusive, clamped.
Slice(s, a, b) ==
    IF a >= Min(b, Len(s)) THEN "" ELSE SubSeq(s, a + 1, Min(b, Len(s)))

\* String.prototype.slice(a): from 0-based index a to the end.
SliceFrom(s, a) == Slice(s, a, Len(s))

RECURSIVE StripNonDigitsFrom(_, _)
StripNonDigitsFrom(s, i) ==
    IF i > Len(s) THEN ""
    ELSE (IF IsDigit(CharAt(s, i)) THEN CharAt(s, i) ELSE "")
             \o StripNonDigitsFrom(s, i + 1)

\* raw.replace(/\D/g, "")
StripNonDigits(s) == StripNonDigitsFrom(s, 1)

UpperOf ==
    [c \in LowerLetters |->
        LET k == CHOOSE k \in 1..26 : c = SubSeq(LowerCase, k, k)
        IN  SubSeq(UpperCase, k, k)]

LowerOf ==
    [c \in UpperLetters |->
        LET k == CHOOSE k \in 1..26 : c = SubSeq(UpperCase, k, k)
        IN  SubSeq(LowerCase, k, k)]

UpperChar(c) == IF c \in LowerLetters THEN UpperOf[c] ELSE c

LowerChar(c) == IF c \in UpperLetters THEN LowerOf[c] ELSE c

RECURSIVE MapFrom(_, _, _)
MapFrom(s, i, up) ==
    IF i > Len(s) THEN ""
    ELSE (IF up THEN UpperChar(CharAt(s, i)) ELSE LowerChar(CharAt(s, i)))
             \o MapFrom(s, i + 1, up)

\* String.prototype.toUpperCase
ToUpperCase(s) == MapFrom(s, 1, TRUE)

ToLowerCase(s) == MapFrom(s, 1, FALSE)

RECURSIVE TrimStart(_)
TrimStart(s) ==
    IF Len(s) > 0 /\ CharAt(s, 1) \in WhiteSpace
    THEN TrimStart(SubSeq(s, 2, Len(s))) ELSE s

RECURSIVE TrimEnd(_)
TrimEnd(s) ==
    IF Len(s) > 0 /\ CharAt(s, Len(s)) \in WhiteSpace
    THEN TrimEnd(SubSeq(s, 1, Len(s) - 1)) ELSE s

\* String.prototype.trim
Trim(s) == TrimEnd(TrimStart(s))

\* Whether string p occurs in s starting at 1-based position i.
StartsAt(s, i, p) ==
    i >= 1 /\ i + Len(p) - 1 <= Len(s) /\ SubSeq(s, i, i + Len(p) - 1) = p

\* Whether string p occurs anywhere in s.
Contains(s, p) == \E i \in 1..Len(s) : StartsAt(s, i, p)

\* The least position >= i at which p occurs in s, or 0 when there is none.
IndexFrom(s, i, p) ==
    IF \E j \in i..Len(s) : StartsAt(s, j, p)
    THEN CHOOSE j \in i..Len(s) :
             StartsAt(s, j, p) /\ \A k \in i..(j - 1) : ~StartsAt(s, k, p)
    ELSE 0

RECURSIVE Repeat(_, _)
\* String.prototype.repeat
Repeat(c, n) == IF n <= 0 THEN "" ELSE c \o Repeat(c, n - 1)

-----------------------------------------------------------------------------
(* lib/sanitize.ts: the formatters.                                        *)

SSNDigits == 9

PhoneDigits == 10

\* Fault variant of formatSSN: ten digits are kept.
formatSSNTenDigits(raw) ==
    LET digits == Slice(StripNonDigits(raw), 0, 10)
    IN  IF Len(digits) <= 3 THEN digits
        ELSE IF Len(digits) <= 5
             THEN Slice(digits, 0, 3) \o "-" \o SliceFrom(digits, 3)
             ELSE Slice(digits, 0, 3) \o "-" \o Slice(digits, 3, 5)
                      \o "-" \o SliceFrom(digits, 5)

\* Fault variant of formatSSN: the input is cut to nine characters before
\* the non-digits are removed.
formatSSNCutFirst(raw) ==
    LET digits == StripNonDigits(Slice(raw, 0, 9))
    IN  IF Len(digits) <= 3 THEN digits
        ELSE IF Len(digits) <= 5
             THEN Slice(digits, 0, 3) \o "-" \o SliceFrom(digits, 3)
             ELSE Slice(digits, 0, 3) \o "-" \o Slice(digits, 3, 5)
                      \o "-" \o SliceFrom(digits, 5)

formatSSN(raw) ==
    LET digits == Slice(StripNonDigits(raw), 0, SSNDigits)
    IN  IF Len(digits) <= 3 THEN digits
        ELSE IF Len(digits) <= 5
             THEN Slice(digits, 0, 3) \o "-" \o SliceFrom(digits, 3)
             ELSE Slice(digits, 0, 3) \o "-" \o Slice(digits, 3, 5)
                      \o "-" \o SliceFrom(digits, 5)

\* Fault variant of formatPhone: nine digits are kept.
formatPhoneNineDigits(raw) ==
    LET digits == Slice(StripNonDigits(raw), 0, 9)
    IN  IF Len(digits) <= 3 THEN digits
        ELSE IF Len(digits) <= 6
             THEN Slice(digits, 0, 3) \o "-" \o SliceFrom(digits, 3)
             ELSE Slice(digits, 0, 3) \o "-" \o Slice(digits, 3, 6)
                      \o "-" \o SliceFrom(digits, 6)

formatPhone(raw) ==
    LET digits == Slice(StripNonDigits(raw), 0, PhoneDigits)
    IN  IF Len(digits) <= 3 THEN digits
        ELSE IF Len(digits) <= 6
             THEN Slice(digits, 0, 3) \o "-" \o SliceFrom(digits, 3)
             ELSE Slice(digits, 0, 3) \o "-" \o Slice(digits, 3, 6)
                      \o "-" \o SliceFrom(digits, 6)

-----------------------------------------------------------------------------
(* lib/sanitize.ts: the sanitizer.  DOMPurify.sanitize with ALLOWED_TAGS   *)
(* and ALLOWED_ATTR empty parses the input as HTML, removes every element  *)
(* (keeping the text of the removed ones, except the raw-text elements     *)
(* whose contents are forbidden) and serializes the remaining text.  The   *)
(* tokenizer below covers start tags, end tags, bogus comments, the        *)
(* raw-text elements script and style, and the character references the    *)
(* serializer itself emits; quoted attribute values are not tokenized, so  *)
(* the inputs of the model carry no quote characters.                      *)

ForbidContents == {"script", "style"}

TagNameEnd == WhiteSpace \cup {"/", ">"}

RECURSIVE TagNameFrom(_, _)
TagNameFrom(s, i) ==
    IF i > Len(s) \/ CharAt(s, i) \in TagNameEnd THEN ""
    ELSE LowerChar(CharAt(s, i)) \o TagNameFrom(s, i + 1)

\* The least position >= i of an end tag "</name" that closes a raw-text
\* element (followed by whitespace, "/" or ">"), or 0.
RawTextEnd(s, i, name) ==
    LET low == ToLowerCase(s)
        pat == "</" \o name
        Closes(j) == StartsAt(low, j, pat)
                       /\ CharAt(s, j + Len(pat)) \in TagNameEnd
    IN  IF \E j \in i..Len(s) : Closes(j)
        THEN CHOOSE j \in i..Len(s) :
                 Closes(j) /\ \A k \in i..(j - 1) : ~Closes(k)
        ELSE 0

RECURSIVE ParseText(_, _)
\* The text content left of s from position i on, in the tokenizer's data state.
ParseText(s, i) ==
    IF i > Len(s) THEN ""
    ELSE LET c  == CharAt(s, i)
             n  == CharAt(s, i + 1)
             gt == IndexFrom(s, i + 1, ">")
         IN
         IF c = "<" /\ IsLetter(n) THEN
             \* start tag: dropped up to its ">", or to the end of input
             IF gt = 0 THEN ""
             ELSE LET name == TagNameFrom(s, i + 1) IN
                  IF name \in ForbidContents
                  THEN LET e  == RawTextEnd(s, gt + 1, name)
                           eg == IF e = 0 THEN 0 ELSE IndexFrom(s, e, ">")
                       IN  IF eg = 0 THEN "" ELSE ParseText(s, eg + 1)
                  ELSE ParseText(s, gt + 1)
         ELSE IF c = "<" /\ n = "/" THEN
             IF i + 1 = Len(s) THEN "</"
             ELSE IF gt = 0 THEN "" ELSE ParseText(s, gt + 1)
         ELSE IF c = "<" /\ n \in {"!", "?"} THEN
             IF gt = 0 THEN "" ELSE ParseText(s, gt + 1)
         ELSE IF c = NUL THEN ParseText(s, i + 1)
         ELSE IF StartsAt(s, i, "&lt;") THEN "<" \o ParseText(s, i + 4)
         ELSE IF StartsAt(s, i, "&gt;") THEN ">" \o ParseText(s, i + 4)
         ELSE IF StartsAt(s, i, "&amp;") THEN "&" \o ParseText(s, i + 5)
         ELSE c \o ParseText(s, i + 1)

RECURSIVE SerializeText(_, _)
\* The HTML serialization of a text node.
SerializeText(s, i) ==
    IF i > Len(s) THEN ""
    ELSE LET c == CharAt(s, i) IN
         (IF c = "<" THEN "&lt;"
          ELSE IF c = ">" THEN "&gt;"
          ELSE IF c = "&" THEN "&amp;"
          ELSE c) \o SerializeText(s, i + 1)

\* Fault variant of DOMPurifySanitize: the text left is returned without
\* being serialized.
DOMPurifyTextOnly(value) ==
    IF ~Contains(value, "<") THEN value ELSE ParseText(value, 1)

\* DOMPurify.sanitize(value, {ALLOWED_TAGS: [], ALLOWED_ATTR: []}); an input
\* without "<" is returned as it is.
DOMPurifySanitize(value) ==
    IF ~Contains(value, "<") THEN value
    ELSE SerializeText(ParseText(value, 1), 1)

RECURSIVE RemoveNul(_, _)
\* clean.replace(/\0/g, "")
RemoveNul(s, i) ==
    IF i > Len(s) THEN ""
    ELSE (IF CharAt(s, i) = NUL THEN "" ELSE CharAt(s, i)) \o RemoveNul(s, i + 1)

\* Fault variant of sanitizeInput: the value is stored as typed.
sanitizeInputRaw(value) == value

sanitizeInput(value) == RemoveNul(DOMPurifySanitize(value), 1)

sanitize(value) == Trim(sanitizeInput(value))

-----------------------------------------------------------------------------
(* lib/schema.ts: the zod rules.  Each rule returns the message of the     *)
(* first issue (r.error.issues[0].message), or "" when the value parses.   *)

FullNameMax == 100

RECURSIVE AllDigitsFrom(_, _)
AllDigitsFrom(s, i) ==
    i > Len(s) \/ (IsDigit(CharAt(s, i)) /\ AllDigitsFrom(s, i + 1))

\* /^\d+$/ restricted to a given length
IsDigitRun(s, n) == Len(s) = n /\ AllDigitsFrom(s, 1)

DigitVal(c) == CHOOSE n \in 0..9 : c = SubSeq("0123456789", n + 1, n + 1)

\* /^\d{3}-\d{2}-\d{4}$/
MatchesSSN(v) ==
    /\ Len(v) = 11
    /\ IsDigitRun(SubSeq(v, 1, 3), 3) /\ CharAt(v, 4) = "-"
    /\ IsDigitRun(SubSeq(v, 5, 6), 2) /\ CharAt(v, 7) = "-"
    /\ IsDigitRun(SubSeq(v, 8, 11), 4)

\* /^\d{3}-\d{3}-\d{4}$/
MatchesPhone(v) ==
    /\ Len(v) = 12
    /\ IsDigitRun(SubSeq(v, 1, 3), 3) /\ CharAt(v, 4) = "-"
    /\ IsDigitRun(SubSeq(v, 5, 7), 3) /\ CharAt(v, 8) = "-"
    /\ IsDigitRun(SubSeq(v, 9, 12), 4)

\* /^\d{5}(-\d{4})?$/
MatchesZip(v) ==
    \/ IsDigitRun(v, 5)
    \/ /\ Len(v) = 10
       /\ IsDigitRun(SubSeq(v, 1, 5), 5) /\ CharAt(v, 6) = "-"
       /\ IsDigitRun(SubSeq(v, 7, 10), 4)

\* /^\d{4}-\d{2}-\d{2}$/
MatchesDate(v) ==
    /\ Len(v) = 10
    /\ IsDigitRun(SubSeq(v, 1, 4), 4) /\ CharAt(v, 5) = "-"
    /\ IsDigitRun(SubSeq(v, 6, 7), 2) /\ CharAt(v, 8) = "-"
    /\ IsDigitRun(SubSeq(v, 9, 10), 2)

\* !isNaN(new Date(v).getTime()) for a v of the shape YYYY-MM-DD: the month
\* is 01..12 and the day 01..31 (V8 and JavaScriptCore roll a day past the
\* end of a shorter month over into the next month instead of rejecting it).
DateParses(v) ==
    LET month == 10 * DigitVal(CharAt(v, 6)) + DigitVal(CharAt(v, 7))
        day   == 10 * DigitVal(CharAt(v, 9)) + DigitVal(CharAt(v, 10))
    IN  month \in 1..12 /\ day \in 1..31

ssnSchema(v) ==
    IF MatchesSSN(v) THEN "" ELSE "SSN must be in XXX-XX-XXXX format."

phoneSchema(v) ==
    IF MatchesPhone(v) THEN "" ELSE "Phone must be in XXX-XXX-XXXX format."

dobSchema(v) ==
    IF ~MatchesDate(v) THEN "Date of birth must be a valid date."
    ELSE IF ~DateParses(v) THEN "Date of birth is not valid."
    ELSE ""

licenseSchema(v) ==
    IF Len(v) < 4 THEN "Driver's license number is too short." ELSE ""

fullNameSchema(v) ==
    IF Len(Trim(v)) < 1 THEN "Full name is required."
    ELSE IF Len(Trim(v)) > FullNameMax
         THEN "Too big: expected string to have <=100 characters"
         ELSE ""

streetSchema(v) == IF Len(Trim(v)) < 1 THEN "Street is required." ELSE ""

citySchema(v) == IF Len(Trim(v)) < 1 THEN "City is required." ELSE ""

stateSchema(v) ==
    IF Len(Trim(v)) < 2 THEN "State is required."
    ELSE IF Len(Trim(v)) > 2 THEN "Use 2-letter state abbreviation."
    ELSE ""

zipSchema(v) ==
    IF MatchesZip(Trim(v)) THEN ""
    ELSE "ZIP must be 5 or 9 digits (e.g. 84101 or 84101-1234)."

\* z.literal(true)
consentSchema(v) ==
    IF v = TRUE THEN ""
    ELSE "You must consent to data processing to continue."

-----------------------------------------------------------------------------
(* ui/IdentityForm.tsx (TanStack Form version): fields, defaults, and the  *)
(* per-field validators.                                                   *)

\* The fields in form (DOM) order.
FieldOrder ==
    <<"fullName", "street", "city", "state", "zip", "ssn", "phoneNumber",
      "dob", "driversLicense", "consent">>

FieldNames == {FieldOrder[i] : i \in 1..Len(FieldOrder)}

TextFields == {"fullName", "street", "city", "state", "zip", "driversLicense"}

DEFAULTS == [f \in FieldNames |-> IF f = "consent" THEN FALSE ELSE ""]

NoErrors == [f \in FieldNames |-> ""]

\* The function each <form.Field> passes to fieldValidate: it runs on blur
\* and on submit, on the field's current value.
FieldValidator(f, v) ==
    CASE f = "fullName"       -> fullNameSchema(sanitize(v))
      [] f = "street"         -> streetSchema(Trim(sanitize(v)))
      [] f = "city"           -> citySchema(Trim(sanitize(v)))
      [] f = "state"          -> stateSchema(Trim(sanitize(v)))
      [] f = "zip"            -> zipSchema(Trim(sanitize(v)))
      [] f = "ssn"            -> ssnSchema(v)
      [] f = "phoneNumber"    -> phoneSchema(v)
      [] f = "dob"            -> dobSchema(v)
      [] f = "driversLicense" -> licenseSchema(Trim(sanitize(v)))
      [] f = "consent"        ->
             IF ~v THEN "You must consent to data processing to continue."
             ELSE ""

\* The rule identitySchema applies to field f of the raw form values.
SchemaRule(f, v) ==
    CASE f = "fullName"       -> fullNameSchema(v)
      [] f = "street"         -> streetSchema(v)
      [] f = "city"           -> citySchema(v)
      [] f = "state"          -> stateSchema(v)
      [] f = "zip"            -> zipSchema(v)
      [] f = "ssn"            -> ssnSchema(v)
      [] f = "phoneNumber"    -> phoneSchema(v)
      [] f = "dob"            -> dobSchema(v)
      [] f = "driversLicense" -> licenseSchema(v)
      [] f = "consent"        -> consentSchema(v)

\* identitySchema.safeParse(value).success
ParseSuccess(vals) == \A f \in FieldNames : SchemaRule(f, vals[f]) = ""

\* parsed.data: the strings declared with .trim() come out trimmed.
ParsedData(vals) ==
    [f \in FieldNames |->
        IF f \in {"fullName", "street", "city", "state", "zip"}
        THEN Trim(vals[f]) ELSE vals[f]]

\* const { consent: _consent, ...payload } = parsed.data
StripConsent(data) == [f \in FieldNames \ {"consent"} |-> data[f]]

-----------------------------------------------------------------------------
(* The mutation (lib/useSubmitIdentity.ts, api/piiForm.ts) and what the    *)
(* form derives from it.                                                   *)

NoError == [kind |-> "none", message |-> "", errors |-> <<>>]

IdleMutation == [status |-> "idle", error |-> NoError]

\* The ways a transport call settles: the record is stored (201), the
\* backend answers with a structured error (ApiRequestError), or fetch
\* itself rejects.
Outcomes == {"created", "server500", "duplicate409", "validation400", "network"}

\* App.tsx validateIdentity, the validator of the mock backend: the message
\* it pushes for each field of a request body, "" where it pushes none.  The
\* body is the flat record the model sends (street is address.street).
validateIdentity(data) ==
    [f \in DOMAIN data |->
        CASE f = "fullName" ->
                 IF Trim(data[f]) = "" THEN "Full name is required." ELSE ""
          [] f = "street" ->
                 IF Trim(data[f]) = "" THEN "Street is required." ELSE ""
          [] f = "city" ->
                 IF Trim(data[f]) = "" THEN "City is required." ELSE ""
          [] f = "state" ->
                 IF Trim(data[f]) = "" THEN "State is required." ELSE ""
          [] f = "zip" ->
                 IF Trim(data[f]) = "" THEN "ZIP code is required."
                 ELSE IF ~MatchesZip(data[f])
                      THEN "ZIP must be 5 or 9 digits (e.g. 84101 or 84101-1234)."
                      ELSE ""
          [] f = "ssn" ->
                 IF Trim(data[f]) = "" THEN "SSN is required."
                 ELSE IF ~MatchesSSN(data[f])
                      THEN "SSN must be in XXX-XX-XXXX format."
                      ELSE ""
          [] f = "phoneNumber" ->
                 IF Trim(data[f]) = "" THEN "Phone number is required."
                 ELSE IF ~MatchesPhone(data[f])
                      THEN "Phone must be in XXX-XXX-XXXX format."
                      ELSE ""
          [] f = "dob" ->
                 IF Trim(data[f]) = "" THEN "Date of birth is required."
                 ELSE IF ~MatchesDate(data[f])
                      THEN "Date of birth must be in YYYY-MM-DD format."
                      ELSE IF ~DateParses(data[f])
                           THEN "Date of birth is not a valid date."
                           ELSE ""
          [] f = "driversLicense" ->
                 IF Trim(data[f]) = ""
                 THEN "Driver's license number is required."
                 ELSE IF Len(Trim(data[f])) < 4
                      THEN "Driver's license number is too short."
                      ELSE ""
          [] OTHER -> ""]

\* The answer of the mock POST /api/v1/identity handler to a request body.
MockBackend(body) ==
    IF body["ssn"] = "999-99-9999" THEN "server500"
    ELSE IF body["ssn"] = "000-00-0000" THEN "duplicate409"
    ELSE IF \E f \in DOMAIN body : validateIdentity(body)[f] # ""
         THEN "validation400"
         ELSE "created"

OutcomeError(o) ==
    CASE o = "server500" ->
             [kind |-> "api",
              message |-> "An unexpected server error occurred. Please try again.",
              errors |-> <<>>]
      [] o = "duplicate409" ->
             [kind |-> "api",
              message |-> "A record with this SSN already exists.",
              errors |-> <<[field |-> "ssn",
                            message |-> "This SSN is already on file."]>>]
      [] o = "validation400" ->
             [kind |-> "api",
              message |-> "Validation failed. Please correct the highlighted fields.",
              errors |-> <<[field |-> "fullName",
                            message |-> "Full name is required."]>>]
      [] o = "network" ->
             [kind |-> "network", message |-> "Failed to fetch", errors |-> <<>>]

\* Number of transport calls in flight.
inFlight == Len(requests)

\* Fault variant of isSubmitting: the pending call is never noticed.
isSubmittingNever == FALSE

isSubmitting == mutation.status = "pending"

\* mutation.isSuccess && mutation.data: the SuccessCard replaces the form.
successView == mutation.status = "success"

globalError ==
    IF mutation.status = "error" /\ mutation.error.kind = "api"
    THEN mutation.error.message
    ELSE IF mutation.status = "error"
         THEN "An unexpected error occurred. Please try again."
         ELSE ""

\* Fault variant of apiFieldErrors: the structured error's field entries
\* are not read.
apiFieldErrorsNone(f) == ""

\* apiFieldErrors[f] ("" = undefined); a later entry for a field wins.
apiFieldErrors(f) ==
    IF mutation.status = "error" /\ mutation.error.kind = "api"
    THEN LET es == mutation.error.errors
             hits == {i \in 1..Len(es) : es[i].field = f}
         IN  IF hits = {} THEN ""
             ELSE es[CHOOSE i \in hits : \A j \in hits : j <= i].message
    ELSE ""

\* field.state.meta.errors[0]
MetaError(eb, es, f) == IF eb[f] # "" THEN eb[f] ELSE es[f]

\* const err = field.state.meta.errors[0] ?? apiFieldErrors[f]; the consent
\* field shows its client error only.
DisplayedError(eb, es, f) ==
    IF MetaError(eb, es, f) # "" THEN MetaError(eb, es, f)
    ELSE IF f = "consent" THEN "" ELSE apiFieldErrors(f)

\* aria-invalid={!!err}
AriaInvalid(f) == DisplayedError(errBlur, errSubmit, f) # ""

-----------------------------------------------------------------------------
(* ui/SSNInput.tsx: the masked projection and the edit handlers.           *)

MaskChar == "*"

SSNMaxLength == 11

MaskedPrefix == 5

formatMaskedSSN(raw) ==
    IF Len(raw) <= 3 THEN raw
    ELSE IF Len(raw) <= 5
         THEN Slice(raw, 0, 3) \o "-" \o SliceFrom(raw, 3)
         ELSE Slice(raw, 0, 3) \o "-" \o Slice(raw, 3, 5) \o "-" \o SliceFrom(raw, 5)

\* Fault variant of getHiddenDisplayValue: every digit but the last four
\* is masked, whatever the number of digits.
getHiddenDisplayValueLast4(normalizedValue) ==
    LET digits == StripNonDigits(normalizedValue)
        maskedPrefixLength == Max(0, Len(digits) - 4)
        maskedDigits == Repeat(MaskChar, maskedPrefixLength)
                            \o SliceFrom(digits, maskedPrefixLength)
    IN  formatMaskedSSN(maskedDigits)

getHiddenDisplayValue(normalizedValue) ==
    LET digits == StripNonDigits(normalizedValue)
        maskedPrefixLength == Min(MaskedPrefix, Len(digits))
        maskedDigits == Repeat(MaskChar, maskedPrefixLength)
                            \o SliceFrom(digits, maskedPrefixLength)
    IN  formatMaskedSSN(maskedDigits)

\* The string the <input> shows for the stored value.
displayValue(vis, value) ==
    IF vis THEN formatSSN(value) ELSE getHiddenDisplayValue(formatSSN(value))

\* Fault variant of SSNOnChange: the Hidden branch is missing, the value
\* the edit left in the input is formatted in both states.
SSNOnChangeFromTarget(vis, value, inputType, data, target) ==
    [called |-> TRUE, value |-> formatSSN(target)]

\* What the input's onChange passes to the form for an input event: the
\* event's inputType and data, and the DOM value (target) the edit left.
\* called = FALSE when the handler returns without calling onChange.
SSNOnChange(vis, value, inputType, data, target) ==
    IF vis THEN [called |-> TRUE, value |-> formatSSN(target)]
    ELSE LET prevDigits == StripNonDigits(formatSSN(value))
             insertedDigits == StripNonDigits(data)
         IN  IF StartsAt(inputType, 1, "delete")
             THEN [called |-> TRUE,
                   value |-> formatSSN(Slice(prevDigits, 0,
                                             Max(0, Len(prevDigits) - 1)))]
             ELSE IF Len(insertedDigits) > 0
                  THEN [called |-> TRUE,
                        value |-> formatSSN(Slice(prevDigits \o insertedDigits,
                                                  0, SSNDigits))]
                  ELSE [called |-> FALSE, value |-> value]

\* Fault variant of SSNOnPasteHidden: the pasted digits replace the value.
SSNOnPasteHiddenReplace(value, text) ==
    LET pastedDigits == StripNonDigits(text)
    IN  IF Len(pastedDigits) > 0
        THEN [called |-> TRUE, value |-> formatSSN(Slice(pastedDigits, 0, SSNDigits))]
        ELSE [called |-> FALSE, value |-> value]

\* What onPaste passes to the form while the field is Hidden (the default
\* paste is prevented, so no input event follows).
SSNOnPasteHidden(value, text) ==
    LET prevDigits == StripNonDigits(formatSSN(value))
        pastedDigits == StripNonDigits(text)
    IN  IF Len(pastedDigits) > 0
        THEN [called |-> TRUE,
              value |-> formatSSN(Slice(prevDigits \o pastedDigits, 0, SSNDigits))]
        ELSE [called |-> FALSE, value |-> value]

\* The DOM value after the browser inserts text at 0-based caret position
\* pos of an input with maxLength: what does not fit is cut from the
\* inserted text.
DomInsert(shown, pos, text) ==
    LET room == Max(0, SSNMaxLength - Len(shown))
    IN  Slice(shown, 0, pos) \o Slice(text, 0, room) \o SliceFrom(shown, pos)

\* The DOM value after the browser deletes the character before caret
\* position pos (1..Len(shown)).
DomDelete(shown, pos) == Slice(shown, 0, pos - 1) \o SliceFrom(shown, pos)

-----------------------------------------------------------------------------
(* TanStack Form's field and form operations as the component uses them.   *)

\* Fault variant of BlurErrBlur: a blur validates the whole form.
BlurErrBlurAll(eb, vals, g) == [f \in FieldNames |-> FieldValidator(f, vals[f])]

\* field.handleBlur: runs the onBlur validator of the field; a pass also
\* clears the field's onSubmit error.
BlurErrBlur(eb, vals, g) == [eb EXCEPT ![g] = FieldValidator(g, vals[g])]

BlurErrSubmit(es, vals, g) ==
    IF FieldValidator(g, vals[g]) = "" THEN [es EXCEPT ![g] = ""] ELSE es

\* Fault variant of AfterBlurOf: the SSN blur handler leaves the mask
\* state as it is.
AfterBlurKeepsMask(g, eb, es, vals, vis) ==
    IF g \in FieldNames
    THEN [eb |-> BlurErrBlur(eb, vals, g), es |-> BlurErrSubmit(es, vals, g),
          vis |-> vis]
    ELSE [eb |-> eb, es |-> es, vis |-> vis]

\* The field a focus change takes the focus from fires its blur handler.
AfterBlurOf(g, eb, es, vals, vis) ==
    IF g \in FieldNames
    THEN [eb |-> BlurErrBlur(eb, vals, g), es |-> BlurErrSubmit(es, vals, g),
          vis |-> IF g = "ssn" THEN FALSE ELSE vis]
    ELSE [eb |-> eb, es |-> es, vis |-> vis]

\* form.state.canSubmit once a submission was attempted: no submission is
\* running and no field holds an error.
canSubmit ==
    /\ ~isSubmitting
    /\ \A f \in FieldNames : MetaError(errBlur, errSubmit, f) = ""

\* Fault variant of ValidateAll: validation stops at the first field, in
\* form order, that fails.
ValidateAllFirstOnly(vals) ==
    LET bad == {i \in 1..Len(FieldOrder) :
                    FieldValidator(FieldOrder[i], vals[FieldOrder[i]]) # ""}
    IN  [f \in FieldNames |->
            IF bad # {} /\ f = FieldOrder[CHOOSE i \in bad : \A j \in bad : i <= j]
            THEN FieldValidator(f, vals[f]) ELSE ""]

\* validateAllFields("submit"): every field runs its onBlur and onSubmit
\* validators on its current value.
ValidateAll(vals) == [f \in FieldNames |-> FieldValidator(f, vals[f])]

\* formRef.current.querySelector('[aria-invalid="true"]'): the first field
\* in form order that shows an error, or "none".
FirstInvalid(eb, es) ==
    LET bad == {i \in 1..Len(FieldOrder) : DisplayedError(eb, es, FieldOrder[i]) # ""}
    IN  IF bad = {} THEN "none"
        ELSE FieldOrder[CHOOSE i \in bad : \A j \in bad : i <= j]

-----------------------------------------------------------------------------
(* User inputs of the model.                                               *)

\* A form filled in with valid values (the fixture of the component tests).
Filled ==
    [f \in FieldNames |->
        CASE f = "fullName"       -> "Jane Doe"
          [] f = "street"         -> "123 Main St"
          [] f = "city"           -> "Salt Lake City"
          [] f = "state"          -> "UT"
          [] f = "zip"            -> "84101"
          [] f = "ssn"            -> "123-45-6789"
          [] f = "phoneNumber"    -> "801-555-1234"
          [] f = "dob"            -> "1990-01-15"
          [] f = "driversLicense" -> "D1234567"
          [] f = "consent"        -> TRUE]

\* The DOM values (e.target.value) a change event of field f may carry.
RawInputs(f) ==
    CASE f = "fullName" ->
             {"", "Jane Doe", "<b>Al</b>", "<script>alert(1)</script>"}
      [] f = "street" ->
             {"123 Main St", "<script>document.cookie</script>", " 9 Elm<br>"}
      [] f = "city" -> {"Salt Lake City", " ", "<i>Provo"}
      [] f = "state" -> {"ut", "u", "<b"}
      [] f = "zip" -> {"84101", "1234", "<b>84101"}
      [] f = "phoneNumber" -> {"1234", "8015559876", "801-555-1234"}
      [] f = "dob" -> {"", "2000-02-29"}
      [] f = "driversLicense" -> {"d1234567", "    ", "<i>ab</i> ", "<u>x9</u>y8<"}

\* The DOM values the coordinator specification follows.
CoordInputs(f) ==
    CASE f = "fullName" -> {"", "Jane Doe"}
      [] f = "driversLicense" -> {"d1234567", "    "}

\* Texts typed into the SSN field, one input event each.
SSNKeys == {"7", "x"}

\* Clipboard texts pasted into the SSN field.
SSNPastes == {"<b>7", "***-**-", "7x7"}

-----------------------------------------------------------------------------
(* The state machine.                                                      *)

\* No library call is being followed.
NoProbe == [fn |-> "none", arg |-> "", res |-> ""]

InitWith(vals) ==
    /\ values = vals
    /\ errBlur = NoErrors
    /\ errSubmit = NoErrors
    /\ visible = FALSE
    /\ focus = "none"
    /\ mutation = IdleMutation
    /\ requests = <<>>
    /\ lastSubmit = "none"
    /\ probe = NoProbe

\* The form as mounted, or filled in by the user and not yet submitted.
Init == \E vals \in {DEFAULTS, Filled} : InitWith(vals)

\* Fault variant of Interactive: the controls stay enabled while a call is
\* pending.
InteractiveUnlocked == ~successView

\* Every input and the toggle carry disabled={isSubmitting}; the form is
\* not rendered at all while the SuccessCard is shown.
Interactive == ~successView /\ ~isSubmitting

\* The user moves the focus to field f (click or Tab): the field that had
\* the focus fires its blur handler.
Focus(f) ==
    /\ Interactive
    /\ focus # f
    /\ LET ab == AfterBlurOf(focus, errBlur, errSubmit, values, visible)
       IN  /\ errBlur' = ab.eb
           /\ errSubmit' = ab.es
           /\ visible' = ab.vis
    /\ focus' = f
    /\ lastSubmit' = "none"
    /\ UNCHANGED probe
    /\ UNCHANGED <<values, mutation, requests>>

\* The focused field loses the focus to something that is not a field.
Blur ==
    /\ Interactive
    /\ focus \in FieldNames
    /\ LET ab == AfterBlurOf(focus, errBlur, errSubmit, values, visible)
       IN  /\ errBlur' = ab.eb
           /\ errSubmit' = ab.es
           /\ visible' = ab.vis
    /\ focus' = "none"
    /\ lastSubmit' = "none"
    /\ UNCHANGED probe
    /\ UNCHANGED <<values, mutation, requests>>

\* Fault variant of ChangeValue: the phone input stores the DOM value.
ChangeValueRaw(f, raw) ==
    CASE f \in {"fullName", "street", "city", "zip"} -> sanitizeInput(raw)
      [] f \in {"state", "driversLicense"} -> sanitizeInput(ToUpperCase(raw))
      [] f = "phoneNumber" -> raw
      [] f = "dob" -> raw

\* What each input's onChange stores for the DOM value raw.
ChangeValue(f, raw) ==
    CASE f \in {"fullName", "street", "city", "zip"} -> sanitizeInput(raw)
      [] f \in {"state", "driversLicense"} -> sanitizeInput(ToUpperCase(raw))
      [] f = "phoneNumber" -> formatPhone(raw)
      [] f = "dob" -> raw

\* field.handleChange(v): stores the value; the change validation has no
\* validator to run and so clears the field's onSubmit error, while the
\* onBlur error stays until the next blur.
HandleChange(f, v) ==
    /\ values' = [values EXCEPT ![f] = v]
    /\ errSubmit' = [errSubmit EXCEPT ![f] = ""]
    /\ lastSubmit' = "none"
    /\ UNCHANGED probe
    /\ UNCHANGED <<errBlur, visible, focus, mutation, requests>>

\* A change event on a text, phone or date input.
Change(f, raw) ==
    /\ Interactive
    /\ focus = f
    /\ HandleChange(f, ChangeValue(f, raw))

\* A click on the consent checkbox.
ToggleConsent ==
    /\ Interactive
    /\ focus = "consent"
    /\ HandleChange("consent", ~values["consent"])

\* An SSNInput handler result r reaches the form through onChange only
\* when the handler called it.
SSNApply(r) ==
    IF r.called THEN HandleChange("ssn", r.value)
    ELSE /\ lastSubmit' = "none"
         /\ UNCHANGED probe
         /\ UNCHANGED <<values, errBlur, errSubmit, visible, focus, mutation,
                         requests>>

\* The user inserts text at caret position pos of the SSN input: an input
\* event of type insertText.
SSNInsert(text, pos) ==
    /\ Interactive
    /\ focus = "ssn"
    /\ LET shown == displayValue(visible, values["ssn"])
       IN  /\ pos \in 0..Len(shown)
           /\ Len(shown) < SSNMaxLength
           /\ SSNApply(SSNOnChange(visible, values["ssn"], "insertText", text,
                                   DomInsert(shown, pos, text)))

\* The user deletes the character before caret position pos: an input
\* event of type deleteContentBackward.
SSNDelete(pos) ==
    /\ Interactive
    /\ focus = "ssn"
    /\ LET shown == displayValue(visible, values["ssn"])
       IN  /\ pos \in 1..Len(shown)
           /\ SSNApply(SSNOnChange(visible, values["ssn"],
                                   "deleteContentBackward", "",
                                   DomDelete(shown, pos)))

\* The user pastes text at the end of the SSN input.  Hidden: onPaste
\* prevents the default and appends the digits.  Revealed: the browser
\* inserts the text and an insertFromPaste input event reaches onChange.
SSNPaste(text) ==
    /\ Interactive
    /\ focus = "ssn"
    /\ LET shown == displayValue(visible, values["ssn"])
       IN  IF visible
           THEN /\ Len(shown) < SSNMaxLength
                /\ SSNApply(SSNOnChange(visible, values["ssn"], "insertFromPaste",
                                        "", DomInsert(shown, Len(shown), text)))
           ELSE SSNApply(SSNOnPasteHidden(values["ssn"], text))

\* Fault variant of ToggleVisible: the click always reveals.
ToggleVisibleRevealOnly ==
    /\ Interactive
    /\ visible' = TRUE
    /\ lastSubmit' = "none"
    /\ UNCHANGED <<values, errBlur, errSubmit, focus, mutation, requests, probe>>

\* A click on the eye button; onMouseDown prevents the focus from moving.
ToggleVisible ==
    /\ Interactive
    /\ visible' = ~visible
    /\ lastSubmit' = "none"
    /\ UNCHANGED probe
    /\ UNCHANGED <<values, errBlur, errSubmit, focus, mutation, requests>>

\* Fault variant of SubmitDecision: nothing is validated before the call.
SubmitDecisionUngated(vals) == IF isSubmitting THEN "ignored" ELSE "sent"

\* Fault variant of SubmitDecision: the consent box is taken as checked.
SubmitDecisionConsentFree(vals) ==
    LET v == [vals EXCEPT !["consent"] = TRUE]
    IN  IF isSubmitting THEN "ignored"
        ELSE IF ValidateAll(v) # NoErrors THEN "invalid"
        ELSE IF ~ParseSuccess(v) THEN "guarded"
        ELSE "sent"

\* What a submit event does, from the state it finds:
\*   "ignored"  the submit control is disabled (a submission is running);
\*   "invalid"  a field holds an error, or fails the validation run now:
\*              onSubmitInvalid;
\*   "guarded"  onSubmit ran and the final safeParse failed: return;
\*   "sent"     onSubmit ran and called mutation.mutateAsync(payload).
SubmitDecision(vals) ==
    IF isSubmitting THEN "ignored"
    ELSE IF ~canSubmit THEN "invalid"
    ELSE IF ValidateAll(vals) # NoErrors THEN "invalid"
    ELSE IF ~ParseSuccess(vals) THEN "guarded"
    ELSE "sent"

\* The onBlur and onSubmit errors a submit event leaves before
\* onSubmitInvalid or onSubmit runs.
ErrorsAfterSubmit(vals, e) == IF canSubmit THEN ValidateAll(vals) ELSE e

\* Fault variant of SubmitPayload: the SSN is taken from what the input
\* shows.
SubmitPayloadShown(vals) ==
    [StripConsent(ParsedData(vals)) EXCEPT
        !["ssn"] = displayValue(visible, vals["ssn"])]

\* The payload onSubmit hands to mutation.mutateAsync.
SubmitPayload(vals) == StripConsent(ParsedData(vals))

\* The form's onSubmit: e.preventDefault(); form.handleSubmit().  The event
\* comes from the submit button or from Enter in a focused input.
Submit ==
    /\ ~successView
    /\ LET d   == SubmitDecision(values)
           eb1 == ErrorsAfterSubmit(values, errBlur)
           es1 == ErrorsAfterSubmit(values, errSubmit)
       IN  /\ lastSubmit' = d
           /\ IF d = "ignored"
              THEN UNCHANGED <<errBlur, errSubmit, visible, focus, mutation,
                               requests>>
              ELSE IF d = "invalid"
              THEN \* focusFirstError(): moving the focus blurs the field
                   \* that had it
                   LET target == FirstInvalid(eb1, es1)
                       ab == IF target # focus
                             THEN AfterBlurOf(focus, eb1, es1, values, visible)
                             ELSE [eb |-> eb1, es |-> es1, vis |-> visible]
                   IN  /\ errBlur' = ab.eb
                       /\ errSubmit' = ab.es
                       /\ visible' = ab.vis
                       /\ focus' = target
                       /\ UNCHANGED <<mutation, requests>>
              ELSE IF d = "guarded"
              THEN /\ errBlur' = eb1
                   /\ errSubmit' = es1
                   /\ UNCHANGED <<visible, focus, mutation, requests>>
              ELSE /\ errBlur' = eb1
                   /\ errSubmit' = es1
                   /\ mutation' = [status |-> "pending", error |-> NoError]
                   /\ requests' = Append(requests, SubmitPayload(values))
                   /\ UNCHANGED <<visible, focus>>
    /\ UNCHANGED <<values, probe>>

\* Fault variant of Settle: a failed call resets the form values.
SettleResetting(o) ==
    /\ requests # <<>>
    /\ requests' = Tail(requests)
    /\ IF o = "created"
       THEN /\ mutation' = [mutation EXCEPT !.status = "success"]
            /\ visible' = FALSE
            /\ focus' = "none"
            /\ UNCHANGED values
       ELSE /\ mutation' = [mutation EXCEPT !.status = "error",
                                            !.error = OutcomeError(o)]
            /\ values' = DEFAULTS
            /\ UNCHANGED <<visible, focus>>
    /\ lastSubmit' = "none"
    /\ UNCHANGED <<probe, errBlur, errSubmit>>

\* A transport call settles with outcome o.  On success the SuccessCard
\* replaces the form, which unmounts SSNInput and every input.
Settle(o) ==
    /\ requests # <<>>
    /\ requests' = Tail(requests)
    /\ IF o = "created"
       THEN /\ mutation' = [mutation EXCEPT !.status = "success"]
            /\ visible' = FALSE
            /\ focus' = "none"
       ELSE /\ mutation' = [mutation EXCEPT !.status = "error",
                                            !.error = OutcomeError(o)]
            /\ UNCHANGED <<visible, focus>>
    /\ lastSubmit' = "none"
    /\ UNCHANGED probe
    /\ UNCHANGED <<values, errBlur, errSubmit>>

\* Fault variant of SubmitAnother: the mutation is reset, the form is not.
SubmitAnotherKeepsForm ==
    /\ successView
    /\ mutation' = IdleMutation
    /\ lastSubmit' = "none"
    /\ UNCHANGED <<values, errBlur, errSubmit, probe, visible, focus, requests>>

\* SuccessCard onReset ("Submit Another"): mutation.reset(); form.reset().
SubmitAnother ==
    /\ successView
    /\ mutation' = IdleMutation
    /\ values' = DEFAULTS
    /\ errBlur' = NoErrors
    /\ errSubmit' = NoErrors
    /\ lastSubmit' = "none"
    /\ UNCHANGED probe
    /\ UNCHANGED <<visible, focus, requests>>

\* The "Clear form" button: form.reset(); mutation.reset().  The click
\* has taken the focus from any field before the handler runs.
ClearForm ==
    /\ Interactive
    /\ focus = "none"
    /\ values' = DEFAULTS
    /\ errBlur' = NoErrors
    /\ errSubmit' = NoErrors
    /\ mutation' = IdleMutation
    /\ lastSubmit' = "none"
    /\ UNCHANGED probe
    /\ UNCHANGED <<visible, focus, requests>>

-----------------------------------------------------------------------------
(* Spec: the form coordinator.  The user works on the name, the licence    *)
(* and the consent box of an empty or a filled-in form, submits, and the   *)
(* transport settles.                                                      *)

CoordFields == {"fullName", "driversLicense", "consent"}

Next ==
    \/ \E f \in CoordFields : Focus(f)
    \/ Blur
    \/ \E f \in CoordFields \ {"consent"} : \E raw \in CoordInputs(f) : Change(f, raw)
    \/ ToggleConsent
    \/ inFlight < MaxInFlight /\ Submit
    \/ \E o \in Outcomes : Settle(o)
    \/ SubmitAnother
    \/ ClearForm

Spec == Init /\ [][Next]_vars

-----------------------------------------------------------------------------
(* SpecSSN: the formatted fields.  The other fields hold valid values; the *)
(* user types, deletes and pastes in the SSN input, toggles the mask,      *)
(* types a phone number, leaves the field and submits.  One of the two     *)
(* fields is edited at a time.                                             *)

InitSSN == InitWith(Filled)

\* Field f is as the filled-in form had it and shows no error.
Pristine(f) ==
    /\ values[f] = Filled[f]
    /\ errBlur[f] = ""
    /\ errSubmit[f] = ""

FormattedFields == {"ssn", "phoneNumber"}

\* Caret positions the model follows: the end of the input, and its start
\* as well while the value is masked.
Carets(shown) == IF visible THEN {Len(shown)} ELSE {0, Len(shown)}

\* Caret positions of a deletion: the end of the input, and behind its
\* first character as well while the value is masked.
DeleteCarets(shown) ==
    IF visible THEN {Len(shown)} ELSE {1, Len(shown)} \ {0}

NextSSN ==
    \/ \E f \in FormattedFields :
           /\ \A g \in FormattedFields \ {f} : Pristine(g)
           /\ Focus(f)
    \/ Blur
    \/ ToggleVisible
    \/ \E text \in SSNKeys :
           \E pos \in Carets(displayValue(visible, values["ssn"])) :
               SSNInsert(text, pos)
    \/ \E pos \in DeleteCarets(displayValue(visible, values["ssn"])) :
           SSNDelete(pos)
    \/ \E text \in SSNPastes : SSNPaste(text)
    \/ \E raw \in RawInputs("phoneNumber") : Change("phoneNumber", raw)
    \/ inFlight < MaxInFlight /\ Submit
    \/ \E o \in {"created", "duplicate409"} : Settle(o)

SpecSSN == InitSSN /\ [][NextSSN]_vars

-----------------------------------------------------------------------------
(* SpecLock: every control of the form.  The user works on the name, the   *)
(* SSN input with its eye button and the consent box of a filled-in form,  *)
(* clears the form, submits, and the transport settles.                    *)

InitLock == InitWith(Filled)

LockFields == {"fullName", "ssn", "consent"}

NextLock ==
    \/ \E f \in LockFields :
           /\ \A g \in LockFields \ {f} : Pristine(g)
           /\ Focus(f)
    \/ Blur
    \/ \E raw \in CoordInputs("fullName") : Change("fullName", raw)
    \/ ToggleConsent
    \/ ToggleVisible
    \/ \E text \in SSNKeys :
           SSNInsert(text, Len(displayValue(visible, values["ssn"])))
    \/ /\ values["ssn"] # ""
       /\ SSNDelete(Len(displayValue(visible, values["ssn"])))
    \/ inFlight < MaxInFlight /\ Submit
    \/ \E o \in {"created", "server500", "network"} : Settle(o)
    \/ SubmitAnother
    \/ ClearForm

SpecLock == InitLock /\ [][NextLock]_vars

-----------------------------------------------------------------------------
(* SpecRHF: the react-hook-form variant of IdentityForm.  Its inputs store *)
(* what the TanStack variant stores, but validation is the resolver        *)
(* zodResolver(identitySchema) on the raw form values, on blur (mode       *)
(* "onBlur") and on submit.  formState.errors is kept in errBlur.  The     *)
(* user edits the name and the licence of a filled-in form.                *)

\* zodResolver(identitySchema): the message of each field that fails.
zodResolver(vals) == [f \in FieldNames |-> SchemaRule(f, vals[f])]

\* Licence texts typed in the variant's input.
RHFLicenseInputs == {"d1234567", "    ", "ab  ", "ab"}

RHFFields == {"fullName", "driversLicense"}

RHFInputs(f) == IF f = "driversLicense" THEN RHFLicenseInputs ELSE CoordInputs(f)

InitRHF == InitWith(Filled)

RHFFocus(f) ==
    /\ Interactive
    /\ focus = "none"
    /\ focus' = f
    /\ lastSubmit' = "none"
    /\ UNCHANGED <<values, errBlur, errSubmit, visible, mutation, requests, probe>>

\* field.onBlur in mode "onBlur": the resolver runs and the error of the
\* blurred field is updated.
RHFBlur ==
    /\ Interactive
    /\ focus \in FieldNames
    /\ errBlur' = [errBlur EXCEPT ![focus] = zodResolver(values)[focus]]
    /\ focus' = "none"
    /\ lastSubmit' = "none"
    /\ UNCHANGED <<values, errSubmit, visible, mutation, requests, probe>>

\* field.onChange(...): the value is stored; nothing is validated on change
\* (reValidateMode "onBlur").
RHFChange(f, raw) ==
    /\ Interactive
    /\ focus = f
    /\ values' = [values EXCEPT ![f] = ChangeValue(f, raw)]
    /\ lastSubmit' = "none"
    /\ UNCHANGED <<errBlur, errSubmit, visible, focus, mutation, requests, probe>>

\* handleSubmit(onValidSubmit, onInvalidSubmit): the resolver runs on every
\* field; with errors they are stored and the first invalid field is
\* focused, without errors onValidSubmit parses the values again and calls
\* mutation.mutateAsync(payload).
RHFSubmit ==
    /\ Interactive
    /\ LET errs == zodResolver(values)
       IN  IF errs # NoErrors
           THEN /\ errBlur' = errs
                /\ focus' = FirstInvalid(errs, NoErrors)
                /\ lastSubmit' = "invalid"
                /\ UNCHANGED <<mutation, requests>>
           ELSE IF ~ParseSuccess(ParsedData(values))
           THEN /\ errBlur' = NoErrors
                /\ lastSubmit' = "guarded"
                /\ UNCHANGED <<focus, mutation, requests>>
           ELSE /\ errBlur' = NoErrors
                /\ lastSubmit' = "sent"
                /\ mutation' = [status |-> "pending", error |-> NoError]
                /\ requests' = Append(requests, SubmitPayload(ParsedData(values)))
                /\ UNCHANGED focus
    /\ UNCHANGED <<values, errSubmit, visible, probe>>

NextRHF ==
    \/ \E f \in RHFFields : RHFFocus(f)
    \/ RHFBlur
    \/ \E f \in RHFFields : \E raw \in RHFInputs(f) : RHFChange(f, raw)
    \/ RHFSubmit
    \/ \E o \in Outcomes : Settle(o)
    \/ SubmitAnother
    \/ ClearForm

SpecRHF == InitRHF /\ [][NextRHF]_vars

-----------------------------------------------------------------------------
(* SpecText: the plain-text fields.  The user edits one text field of a    *)
(* filled-in form at a time, with values that carry markup, and submits.   *)

InitText == InitWith(Filled)

NextText ==
    \/ \E f \in TextFields :
           /\ \A g \in TextFields \ {f} : Pristine(g)
           /\ Focus(f)
    \/ Blur
    \/ \E f \in TextFields : \E raw \in RawInputs(f) : Change(f, raw)
    \/ inFlight < MaxInFlight /\ Submit
    \/ \E o \in Outcomes : Settle(o)

SpecText == InitText /\ [][NextText]_vars

-----------------------------------------------------------------------------
(* SpecPure: the pure functions of lib/sanitize.ts, called on strings      *)
(* drawn from bounded sets, and called again on their own result.          *)

\* Bound on the number of pieces appended to form an argument.
MaxPieces == 3

\* The strings made of at most n pieces, each drawn from the set pieces.
RECURSIVE Strings(_, _)
Strings(pieces, n) ==
    IF n = 0 THEN {""}
    ELSE LET shorter == Strings(pieces, n - 1)
         IN  shorter \cup {s \o c : s \in shorter, c \in pieces}

\* Arguments of the formatters: digits with separators and noise, around
\* the 9 and 10 digit caps.
FormatArgs ==
    {pre \o w : pre \in {"", "12345678", "123-45-678", "(801) 555-12"},
                w \in Strings({"9", "-", "x"}, MaxPieces)}

\* Arguments of the sanitizer: text, white space, tags, stray delimiters,
\* character references and the null character.
SanitizeArgs ==
    Strings({"<b>", "</b>", "<script>", "</script>", "a", " ", ">", "<",
             "&lt;", NUL}, MaxPieces)

PureFunctions == {"formatSSN", "formatPhone", "sanitize"}

ArgsOf(fn) == IF fn = "sanitize" THEN SanitizeArgs ELSE FormatArgs

ApplyFn(fn, s) ==
    CASE fn = "formatSSN"   -> formatSSN(s)
      [] fn = "formatPhone" -> formatPhone(s)
      [] fn = "sanitize"    -> sanitize(s)

InitPure == InitWith(DEFAULTS)

\* fn is called on the string s.
Call(fn, s) ==
    /\ probe = NoProbe
    /\ probe' = [fn |-> fn, arg |-> s, res |-> ApplyFn(fn, s)]
    /\ UNCHANGED <<values, errBlur, errSubmit, visible, focus, mutation,
                   requests, lastSubmit>>

\* The JavaScript engines the schema runs on.  Date.parse of a string of
\* the shape YYYY-MM-DD whose day does not exist in its month is left to
\* the engine: a lenient one (V8, under Node and Chromium) rolls a day up
\* to 31 over into the next month, a strict one gives NaN.
Engines == {"lenient", "strict"}

YearOf(v) ==
    1000 * DigitVal(CharAt(v, 1)) + 100 * DigitVal(CharAt(v, 2))
        + 10 * DigitVal(CharAt(v, 3)) + DigitVal(CharAt(v, 4))

MonthOf(v) == 10 * DigitVal(CharAt(v, 6)) + DigitVal(CharAt(v, 7))

DayOf(v) == 10 * DigitVal(CharAt(v, 9)) + DigitVal(CharAt(v, 10))

IsLeapYear(y) == (y % 4 = 0 /\ y % 100 # 0) \/ y % 400 = 0

DaysInMonth(y, m) ==
    IF m = 2 THEN (IF IsLeapYear(y) THEN 29 ELSE 28)
    ELSE IF m \in {4, 6, 9, 11} THEN 30 ELSE 31

\* v, of the shape YYYY-MM-DD, names a day of the calendar.
RealDate(v) ==
    /\ MonthOf(v) \in 1..12
    /\ DayOf(v) \in 1..DaysInMonth(YearOf(v), MonthOf(v))

\* !isNaN(new Date(v).getTime()) on the given engine.
DateParsesOn(engine, v) ==
    IF engine = "lenient" THEN DateParses(v) ELSE RealDate(v)

\* dobSchema on the given engine.
dobSchemaOn(engine, v) ==
    IF ~MatchesDate(v) THEN "Date of birth must be a valid date."
    ELSE IF ~DateParsesOn(engine, v) THEN "Date of birth is not valid."
    ELSE ""

\* Dates handed to dobSchema.
DateArgs ==
    {y \o "-" \o m \o "-" \o d :
        y \in {"1900", "2000", "2001"},
        m \in {"00", "01", "02", "04", "12", "13"},
        d \in {"00", "01", "28", "29", "30", "31", "32"}}
    \cup {"", "1990", "2000-2-30", "01/15/1990", "15-01-1990"}

\* dobSchema.safeParse(s) is called on one of the engines.
CallDob(engine, s) ==
    /\ probe = NoProbe
    /\ probe' = [fn |-> "dobSchema", arg |-> s, res |-> dobSchemaOn(engine, s)]
    /\ UNCHANGED <<values, errBlur, errSubmit, visible, focus, mutation,
                   requests, lastSubmit>>

\* Fault variant of NormalizeEffect: the digits are passed on ungrouped.
NormalizeEffectUngrouped(value) ==
    [called |-> value # formatSSN(value), value |-> StripNonDigits(value)]

\* SSNInput's effect for the value prop of a render: onChange(normalizedValue)
\* when the value is not its own normalized form.
NormalizeEffect(value) ==
    IF value # formatSSN(value)
    THEN [called |-> TRUE, value |-> formatSSN(value)]
    ELSE [called |-> FALSE, value |-> value]

\* SSNInput is mounted by a parent that holds the value s.
Mount(s) ==
    /\ probe = NoProbe
    /\ probe' = [fn |-> "SSNInput", arg |-> s, res |-> s]
    /\ UNCHANGED <<values, errBlur, errSubmit, visible, focus, mutation,
                   requests, lastSubmit>>

\* The effect of the last render runs and calls onChange; the parent stores
\* what it is given and renders SSNInput again with it.
RunEffect ==
    /\ probe.fn = "SSNInput"
    /\ NormalizeEffect(probe.res).called
    /\ probe' = [probe EXCEPT !.res = NormalizeEffect(probe.res).value]
    /\ UNCHANGED <<values, errBlur, errSubmit, visible, focus, mutation,
                   requests, lastSubmit>>

\* The function is called again, on the result it gave.
CallOnResult ==
    /\ probe # NoProbe
    /\ probe.fn \in PureFunctions
    /\ probe.arg # probe.res
    /\ probe' = [probe EXCEPT !.arg = probe.res,
                              !.res = ApplyFn(probe.fn, probe.res)]
    /\ UNCHANGED <<values, errBlur, errSubmit, visible, focus, mutation,
                   requests, lastSubmit>>

NextPure ==
    \/ \E fn \in PureFunctions : \E s \in ArgsOf(fn) : Call(fn, s)
    \/ CallOnResult
    \/ \E engine \in Engines : \E s \in DateArgs : CallDob(engine, s)
    \/ \E s \in FormatArgs : Mount(s)
    \/ RunEffect

SpecPure == InitPure /\ [][NextPure]_vars

-----------------------------------------------------------------------------
(* Properties.                                                             *)

\* Every field validator and the final safeParse accept vals.
AllValid(vals) == ValidateAll(vals) = NoErrors /\ ParseSuccess(vals)

\* C1: every payload handed to the transport is the output of a successful
\* identitySchema parse of the current form values: every schema rule
\* passes on them, and the payload is the parsed data without consent.
C1_PayloadIsValidated ==
    \A i \in 1..Len(requests) :
        /\ \A f \in FieldNames : SchemaRule(f, values[f]) = ""
        /\ requests[i] = StripConsent(ParsedData(values))

\* C1 witness: a submit has just handed a payload to the transport.
C1_Witness == lastSubmit = "sent" /\ Len(requests) = 1

\* C2 (as stated): a submit taken when every field passes validation calls
\* the transport exactly once, with a payload that has no consent flag.
C2_ValidSubmitSendsOnce ==
    /\ lastSubmit \in {"invalid", "guarded"} => ~AllValid(values)
    /\ lastSubmit = "sent" =>
           /\ Len(requests) = 1
           /\ "consent" \notin DOMAIN requests[1]

\* C3: at most one transport call is in flight; a submit issued while a
\* call is pending starts no second one.
C3_OneInFlight == Len(requests) <= 1

\* C3 witness: a submit arrived while a call was pending and was ignored.
C3_Witness == lastSubmit = "ignored" /\ Len(requests) = 1 /\ isSubmitting

\* C4: a submit taken while consent is not true is blocked: nothing is sent
\* and the confirmation view is not shown.
C4_NoConsentBlocks ==
    (lastSubmit # "none" /\ values["consent"] # TRUE) =>
        /\ lastSubmit = "invalid"
        /\ requests = <<>>
        /\ ~successView

\* C4 witness: a submit was blocked with every field valid but consent.
C4_Witness ==
    /\ lastSubmit = "invalid"
    /\ values["consent"] = FALSE
    /\ \A f \in FieldNames \ {"consent"} : FieldValidator(f, values[f]) = ""
    /\ errSubmit["consent"] # ""
    /\ requests = <<>>

\* C5: a submit of the form in its initial all-empty state leaves, in that
\* same step, every one of the ten fields with its own error message, the
\* messages pairwise distinct, and calls no transport.
C5_EmptySubmitFlagsAll ==
    [][(/\ values = DEFAULTS
        /\ errBlur = NoErrors
        /\ errSubmit = NoErrors
        /\ mutation = IdleMutation
        /\ lastSubmit' # "none")
       => /\ \A f \in FieldNames :
                 /\ MetaError(errBlur', errSubmit', f) # ""
                 /\ MetaError(errBlur', errSubmit', f)
                        = FieldValidator(f, DEFAULTS[f])
          /\ \A f, g \in FieldNames :
                 f # g => MetaError(errBlur', errSubmit', f)
                              # MetaError(errBlur', errSubmit', g)
          /\ requests' = <<>>
          /\ mutation' = IdleMutation]_vars

\* C5 witness: the empty form was submitted and all ten fields show an
\* error.
C5_Witness ==
    /\ lastSubmit = "invalid"
    /\ values = DEFAULTS
    /\ \A f \in FieldNames : DisplayedError(errBlur, errSubmit, f) # ""
    /\ requests = <<>>

\* C6: the SSN in every payload is the stored canonical value, a complete
\* 3-2-4 digit group with no mask character, and not the masked string the
\* input shows while Hidden.
C6_SentSSNIsCanonical ==
    \A i \in 1..Len(requests) :
        LET sent == requests[i]["ssn"]
        IN  /\ sent = values["ssn"]
            /\ MatchesSSN(sent)
            /\ ~Contains(sent, MaskChar)
            /\ sent # displayValue(FALSE, values["ssn"])

\* C6 witness: an SSN edited through the input was sent while Hidden.
C6_Witness ==
    /\ Len(requests) = 1
    /\ ~visible
    /\ requests[1]["ssn"] = "123-45-6777"

\* s holds digits only, but for a hyphen at each of the positions in cuts,
\* and does not end with a hyphen.
Grouped(s, cuts, maxLen) ==
    /\ Len(s) <= maxLen
    /\ Len(s) \notin cuts
    /\ \A i \in 1..Len(s) :
           IF i \in cuts THEN CharAt(s, i) = "-" ELSE IsDigit(CharAt(s, i))

\* C7: the stored ssn is a fixed point of formatSSN (empty, or up to 9
\* digits grouped 3-2-4) and the stored phoneNumber is a fixed point of
\* formatPhone (empty, or up to 10 digits grouped 3-3-4).
C7_StoredValuesCanonical ==
    /\ values["ssn"] = formatSSN(values["ssn"])
    /\ Grouped(values["ssn"], {4, 7}, 11)
    /\ values["phoneNumber"] = formatPhone(values["phoneNumber"])
    /\ Grouped(values["phoneNumber"], {4, 8}, 12)

\* C7 witness: a partly typed phone number is stored grouped.
C7_Witness == values["phoneNumber"] = "123-4" /\ focus = "phoneNumber"

\* The string s with the digits whose rank among its digits lies in lo..hi
\* replaced by the mask character; every other character stays in place.
RECURSIVE MaskByRank(_, _, _, _)
MaskByRank(s, i, lo, hi) ==
    IF i > Len(s) THEN ""
    ELSE LET c == CharAt(s, i)
             rank == Len(StripNonDigits(Slice(s, 0, i)))
         IN  (IF IsDigit(c) /\ rank \in lo..hi THEN MaskChar ELSE c)
                 \o MaskByRank(s, i + 1, lo, hi)

C9_BlurHides ==
    /\ ~visible
    /\ [][(focus = "ssn" /\ focus' # "ssn") => ~visible']_vars

\* C9 witness: the SSN input was left with a partial value: its blur
\* handler ran and the value is Hidden.
C9_Witness ==
    /\ focus = "none"
    /\ ~visible
    /\ values["ssn"] = "123-45-67"
    /\ errBlur["ssn"] # ""

\* C10: no plain-text field of a payload holds a "<"; and a submit taken
\* while a plain-text field is empty once stripped is blocked, the field's
\* validator giving the error it gives for the empty value.
C10_NoMarkupSent ==
    /\ \A i \in 1..Len(requests) :
           \A f \in TextFields : ~Contains(requests[i][f], "<")
    /\ \A f \in TextFields :
           (lastSubmit \notin {"none", "ignored"} /\ sanitize(values[f]) = "") =>
               /\ lastSubmit = "invalid"
               /\ FieldValidator(f, values[f]) # ""
               /\ FieldValidator(f, values[f]) = FieldValidator(f, "")

\* C10 witness: a name typed with markup was sent as its plain text.
C10_Witness ==
    /\ Len(requests) = 1
    /\ requests[1]["fullName"] = "Al"
    /\ requests[1]["driversLicense"] = "D1234567"

\* C11: formatSSN(s) holds at most 9 digits, they are the first digits of
\* s in order, the result is those digits grouped 3-2-4 with a hyphen
\* before the fourth and the sixth digit only, and is empty when s has no
\* digit.
C11_FormatSSNShape ==
    probe.fn = "formatSSN" =>
        LET given == StripNonDigits(probe.arg)
            kept == StripNonDigits(probe.res)
        IN  /\ Len(kept) <= 9
            /\ kept = Slice(given, 0, 9)
            /\ Grouped(probe.res, {4, 7}, 11)
            /\ Len(probe.res) = Len(kept) + (IF Len(kept) <= 3 THEN 0
                                             ELSE IF Len(kept) <= 5 THEN 1
                                             ELSE 2)
            /\ given = "" => probe.res = ""

\* C11 witness: formatSSN was called on noisy input with more than nine
\* digits.
C11_Witness ==
    /\ probe.fn = "formatSSN"
    /\ probe.arg = "123-45-678x99"
    /\ probe.res = "123-45-6789"

\* C12: formatSSN maps each of its results to itself.
C12_FormatSSNIdempotent ==
    probe.fn = "formatSSN" => formatSSN(probe.res) = probe.res

\* C12 witness: formatSSN was called on a string it had formatted, and
\* returned it.
C12_Witness ==
    /\ probe.fn = "formatSSN"
    /\ probe.arg = "123-45-6789"
    /\ probe.res = probe.arg

\* C13: the digits of formatSSN(s) are the digits of s cut to 9, and the
\* digits of formatPhone(s) are the digits of s cut to 10.
C13_FormatRoundTrip ==
    /\ probe.fn = "formatSSN" =>
           StripNonDigits(probe.res) = Slice(StripNonDigits(probe.arg), 0, 9)
    /\ probe.fn = "formatPhone" =>
           StripNonDigits(probe.res) = Slice(StripNonDigits(probe.arg), 0, 10)

\* C13 witness: formatPhone was called on noisy input with more than ten
\* digits.
C13_Witness ==
    /\ probe.fn = "formatPhone"
    /\ probe.arg = "(801) 555-12999"
    /\ probe.res = "801-555-1299"

\* C14 (as stated): sanitize(s) holds no markup delimiter ("<" or ">") and
\* no null character, has no white space at either end, and sanitize maps
\* it to itself.
C14_SanitizeNoDelimiters ==
    probe.fn = "sanitize" =>
        /\ ~Contains(probe.res, "<")
        /\ ~Contains(probe.res, ">")
        /\ ~Contains(probe.res, NUL)
        /\ Trim(probe.res) = probe.res
        /\ sanitize(probe.res) = probe.res

\* C14 (amended): sanitize(s) holds no "<" and no null character, has no
\* white space at either end, and sanitize maps it to itself; a ">" is
\* left in the result only when s holds no "<".
C14_SanitizeNoTagOpen ==
    probe.fn = "sanitize" =>
        /\ ~Contains(probe.res, "<")
        /\ ~Contains(probe.res, NUL)
        /\ Trim(probe.res) = probe.res
        /\ sanitize(probe.res) = probe.res
        /\ Contains(probe.res, ">") => ~Contains(probe.arg, "<")

\* C14 witness: sanitize was called on text with a stray ">" and white
\* space in front.
C14_Witness ==
    /\ probe.fn = "sanitize"
    /\ probe.arg = " a>"
    /\ probe.res = "a>"

\* C15 (as stated): a failed call is shown either inline or as the banner:
\* when the error names fields, each named field shows an error and the
\* global banner is absent; when it names none, the banner is shown.
C15_InlineOrBanner ==
    mutation.status = "error" =>
        IF mutation.error.kind = "api" /\ Len(mutation.error.errors) > 0
        THEN /\ \A i \in 1..Len(mutation.error.errors) :
                    AriaInvalid(mutation.error.errors[i].field)
             /\ globalError = ""
        ELSE globalError # ""

\* C15 (amended): a failed call always shows the global banner, with the
\* structured error's message or else the generic one; when the error names
\* fields, each named field also shows an inline error, which is the
\* error's message for it unless the field holds a client-side error.
C15_BannerAndInline ==
    mutation.status = "error" =>
        /\ globalError # ""
        /\ mutation.error.kind = "api" => globalError = mutation.error.message
        /\ mutation.error.kind # "api" =>
               globalError = "An unexpected error occurred. Please try again."
        /\ \A i \in 1..Len(mutation.error.errors) :
               LET e == mutation.error.errors[i] IN
                   /\ AriaInvalid(e.field)
                   /\ MetaError(errBlur, errSubmit, e.field) = "" =>
                          DisplayedError(errBlur, errSubmit, e.field) = e.message

\* C15 witness: the 409 answer is on screen, as the banner and on the ssn
\* field.
C15_Witness ==
    /\ mutation.status = "error"
    /\ Len(mutation.error.errors) > 0
    /\ globalError = "A record with this SSN already exists."
    /\ DisplayedError(errBlur, errSubmit, "ssn") = "This SSN is already on file."

\* C16: no step taken while a transport call is in flight changes a form
\* value, and a step that settles the call with a failure leaves the form
\* view on screen with the values that were sent.
C16_FailureKeepsValues ==
    [][requests # <<>> =>
          /\ values' = values
          /\ (requests' = Tail(requests) /\ mutation'.status = "error") =>
                 /\ ~successView'
                 /\ values'.consent
                 /\ SubmitPayload(values') = Head(requests)]_vars

\* C16 witness: a call for the filled-in form has settled with a failure.
C16_Witness ==
    /\ mutation.status = "error"
    /\ requests = <<>>
    /\ ~successView
    /\ values = Filled

\* C17: a call that settles with success puts the confirmation view in
\* place of the form; the step that leaves the confirmation view (Submit
\* Another) and the Clear form step both end in the form view with every
\* value at its default, no error on any field and no global banner.
C17_ResetsRestoreDefaults ==
    [][/\ (mutation.status = "pending" /\ mutation'.status = "success") =>
              successView'
       /\ ((successView /\ ~successView') \/ ClearForm) =>
              /\ ~successView'
              /\ values' = DEFAULTS
              /\ \A f \in FieldNames : ~AriaInvalid(f)'
              /\ errBlur' = NoErrors /\ errSubmit' = NoErrors
              /\ globalError' = ""]_vars

\* C17 witness: the confirmation view is shown over a filled-in form, with
\* Submit Another the only way on.
C17_Witness ==
    /\ successView
    /\ requests = <<>>
    /\ values = Filled

\* The first field, in form order, that fails its validator on vals, or
\* "none".
FirstFailing(vals) ==
    LET bad == {i \in 1..Len(FieldOrder) :
                    FieldValidator(FieldOrder[i], vals[FieldOrder[i]]) # ""}
    IN  IF bad = {} THEN "none"
        ELSE FieldOrder[CHOOSE i \in bad : \A j \in bad : i <= j]

\* C18: a submit whose validation run flags at least one field calls no
\* transport and moves the focus to the first field, in form order, that
\* failed in this run, also while errors of an earlier failed transport
\* call are still shown on other fields.
C18_FocusFirstFailed ==
    [][(/\ lastSubmit' = "invalid"
        /\ canSubmit
        /\ ValidateAll(values) # NoErrors) =>
           /\ requests' = requests
           /\ mutation' = mutation
           /\ focus' = FirstFailing(values)]_vars

\* C19: while a transport call is pending, no step other than its
\* settlement changes a value, an error, the mask, the focus or the calls
\* in flight (every input, the eye button, Clear form and submit are
\* disabled); the settlement releases the lock, to the interactive form on
\* a failure and to the confirmation view on success; and the form is
\* locked only while a call is in flight.
C19_LockedWhileInFlight ==
    [][/\ (isSubmitting /\ isSubmitting') =>
              UNCHANGED <<values, errBlur, errSubmit, visible, focus,
                          mutation, requests>>
       /\ (isSubmitting /\ ~isSubmitting') =>
              /\ requests' = Tail(requests)
              /\ mutation'.status \in {"success", "error"}
              /\ mutation'.status = "error" => ~successView'
              /\ mutation'.status = "success" => successView'
       /\ (isSubmitting <=> requests # <<>>)'
       /\ (~isSubmitting /\ isSubmitting') => Len(requests') = 1]_vars

\* C19 witness: a submit event arrived while the call was pending and was
\* ignored, with the SSN input focused and revealed.
C19_Witness ==
    /\ isSubmitting
    /\ lastSubmit = "ignored"
    /\ focus = "ssn"
    /\ visible

\* C20: while the SSN input is Hidden, a deletion at any caret position
\* stores the formatted digits of the value without their last one
\* (the handler stores the empty value when there is no digit), whatever
\* the position.
C20_HiddenDeleteDropsLastDigit ==
    [][/\ SSNOnChange(FALSE, "", "deleteContentBackward", "", "").value = ""
       /\ \A pos \in 1..SSNMaxLength :
           (~visible /\ SSNDelete(pos)) =>
               LET digits == StripNonDigits(values["ssn"])
               IN  /\ StripNonDigits(values'["ssn"]) =
                          Slice(digits, 0, Max(0, Len(digits) - 1))
                   /\ values'["ssn"] = formatSSN(values'["ssn"])
                   /\ \A f \in FieldNames \ {"ssn"} : values'[f] = values[f]]_vars

\* C20 witness: the masked input holds the filled-in SSN less its last
\* digit.
C20_Witness ==
    /\ ~visible
    /\ focus = "ssn"
    /\ values["ssn"] = "123-45-678"

\* The value stored after key c is pressed with the caret at the end of
\* the Hidden input holding the value stored; a key pressed in a full
\* input (maxLength) produces no input event.
TypedKey(stored, c) ==
    LET shown == displayValue(FALSE, stored)
        r == IF Len(shown) < SSNMaxLength
             THEN SSNOnChange(FALSE, stored, "insertText", c,
                              DomInsert(shown, Len(shown), c))
             ELSE [called |-> FALSE, value |-> stored]
    IN  IF r.called THEN r.value ELSE stored

\* The value stored after the characters of keys are typed one at a time
\* (each intermediate value is bound as a value before the next key).
TypedOneByOne(stored, keys) ==
    LET after[i \in 0..Len(keys)] ==
            IF i = 0 THEN stored
            ELSE CHOOSE next \in {TypedKey(prev, CharAt(keys, i)) :
                                      prev \in {after[i - 1]}} : TRUE
    IN  after[Len(keys)]

\* The stored SSN after the step is the stored SSN before it with the
\* digits of text appended, cut to nine digits and formatted.
AppendsDigitsOf(text) ==
    LET digits == StripNonDigits(values["ssn"])
    IN  /\ values'["ssn"] =
               formatSSN(Slice(digits \o StripNonDigits(text), 0, SSNDigits))
        /\ Slice(StripNonDigits(values'["ssn"]), 0, Len(digits)) = digits

\* C21: while the SSN input is Hidden, typing or pasting text appends the
\* digits of the text to the digits of the stored value, cut to nine: the
\* digits already stored stay in front, non-digits add nothing, and a paste
\* stores what typing its characters one at a time stores.
C21_HiddenInsertAppends ==
    [][/\ \A pasted \in SSNPastes :
              (~visible /\ SSNPaste(pasted)) =>
                  /\ AppendsDigitsOf(pasted)
                  /\ values'["ssn"] = TypedOneByOne(values["ssn"], pasted)
       /\ \A key \in SSNKeys : \A pos \in 0..SSNMaxLength :
              (~visible /\ SSNInsert(key, pos)) => AppendsDigitsOf(key)]_vars

\* C21 witness: the masked input holds seven digits of the filled-in SSN
\* and two appended ones.
C21_Witness ==
    /\ ~visible
    /\ focus = "ssn"
    /\ values["ssn"] = "123-45-6777"

\* C22: a step in which the focused field is blurred (the focus leaves
\* the form or moves to another field) leaves that field with the error
\* its rule gives for its current value, or with none when the rule
\* passes, and changes no value and no other field's errors.
C22_BlurValidatesOneField ==
    [][(focus \in FieldNames /\ (Blur \/ \E f \in FieldNames : Focus(f))) =>
           /\ MetaError(errBlur', errSubmit', focus) =
                  FieldValidator(focus, values[focus])
           /\ values' = values
           /\ \A h \in FieldNames \ {focus} :
                  /\ errBlur'[h] = errBlur[h]
                  /\ errSubmit'[h] = errSubmit[h]
                  /\ AriaInvalid(h)' = AriaInvalid(h)]_vars

\* C22 witness: after a failed submit of the empty form the name was
\* filled in and blurred; its error is gone, the street still has its own.
C22_Witness ==
    /\ focus = "none"
    /\ values["fullName"] = "Jane Doe"
    /\ ~AriaInvalid("fullName")
    /\ errBlur["street"] # ""
    /\ errSubmit["street"] # ""

\* The licence rule holds for v: sanitized and trimmed, it has at least
\* four characters.
LicenseLongEnough(v) == Len(Trim(sanitize(v))) >= 4

\* C23: a driversLicense whose sanitized, trimmed value has fewer than four
\* characters never reaches the transport: no call in flight carries one,
\* and a submit of a form that holds one does not pass validation.
C23_ShortLicenseBlocked ==
    /\ \A i \in 1..Len(requests) : LicenseLongEnough(requests[i]["driversLicense"])
    /\ lastSubmit \in {"sent", "guarded"} =>
           LicenseLongEnough(values["driversLicense"])

\* C24: dobSchema accepts a value exactly when it has the shape YYYY-MM-DD
\* and names a day that exists: a month outside 01-12 or a day that its
\* month does not have is rejected.
C24_DobIsRealDate ==
    probe.fn = "dobSchema" =>
        (probe.res = "" <=> (MatchesDate(probe.arg) /\ RealDate(probe.arg)))

\* C25: right after a form reset (Clear form, or Submit Another in the
\* confirmation view) the SSN input is Hidden, whatever its mask state and
\* the focus were before.
C25_ResetHidesSSN ==
    [][(ClearForm \/ (successView /\ ~successView')) => ~visible']_vars

\* C26 (as stated): whenever the SSN field does not have the focus, it is
\* Hidden.
C26_UnfocusedIsHidden == focus # "ssn" => ~visible

\* C26 (amended): the mask state changes to Revealed only by a press of
\* the eye button, whether or not the SSN field has the focus; a press on
\* a Revealed field hides it; and a step that takes the focus from the SSN
\* field leaves it Hidden.
C26_RevealedOnlyByToggle ==
    [][/\ (~visible /\ visible') => ToggleVisible
       /\ (visible /\ ToggleVisible) => ~visible'
       /\ (focus = "ssn" /\ focus' # "ssn") => ~visible']_vars

\* C26 witness: the SSN field is Revealed while another field has the
\* focus.
C26_Witness ==
    /\ visible
    /\ focus = "fullName"

\* A transport call starts only in a step that is a submit which passed
\* validation, one call per such step; no other step (a settlement with a
\* failure included) starts one.
NoCallWithoutSubmit ==
    [][Len(requests') > Len(requests) =>
           /\ lastSubmit' = "sent"
           /\ requests' = Append(requests, SubmitPayload(values))]_vars

\* C27: the transport is called only in a submit step, once per step, so
\* a failure is followed by no call until the user submits again; and a
\* submit taken after a failure, while every field passes validation, does
\* call the transport again.
C27_RetryOnlyBySubmit ==
    [][/\ Len(requests') > Len(requests) =>
              /\ lastSubmit' = "sent"
              /\ requests' = Append(requests, SubmitPayload(values))
       /\ (mutation.status = "error" /\ lastSubmit' # "none"
                                     /\ AllValid(values)) =>
              /\ lastSubmit' = "sent"
              /\ Len(requests') = Len(requests) + 1]_vars

\* C28: a field shows an error only once it was blurred, a submit was
\* attempted or a call failed; a change of a value puts no error on a field
\* that showed none; and a submit attempt leaves every field whose value
\* fails its rule showing an error, touched before or not.
C28_FieldLifecycle ==
    [][\A f \in FieldNames :
           /\ (~AriaInvalid(f) /\ AriaInvalid(f)') =>
                  \/ focus = f /\ focus' # f
                  \/ lastSubmit' # "none"
                  \/ mutation.status = "pending" /\ mutation'.status = "error"
           /\ (~AriaInvalid(f) /\ values' # values) => ~AriaInvalid(f)'
           /\ (lastSubmit' \in {"invalid", "guarded", "sent"}
                   /\ FieldValidator(f, values[f]) # "") =>
                  AriaInvalid(f)']_vars

\* C29: the normalization effect of SSNInput calls onChange at most once
\* for a value the parent supplies: the call is made on the supplied value
\* only, passes formatSSN of it, and leaves the parent with a value that is
\* its own normalized form, for which the effect makes no further call.
C29_EffectConverges ==
    [][(probe.fn = "SSNInput" /\ probe'.fn = "SSNInput") =>
           /\ probe.res = probe.arg
           /\ probe'.res = formatSSN(probe.arg)
           /\ formatSSN(probe'.res) = probe'.res
           /\ ~NormalizeEffect(probe'.res).called]_vars

\* C29 witness: the parent supplied nine bare digits and the effect has
\* replaced them by the grouped value.
C29_Witness ==
    probe = [fn |-> "SSNInput", arg |-> "123456789", res |-> "123-45-6789"]

\* C30: the client validator is at least as strict as the mock backend's:
\* for every payload handed to the transport, validateIdentity pushes no
\* field error, so the backend never answers 400 VALIDATION_ERROR.
C30_BackendAcceptsSent ==
    \A i \in 1..Len(requests) :
        /\ \A f \in DOMAIN requests[i] : validateIdentity(requests[i])[f] = ""
        /\ MockBackend(requests[i]) # "validation400"

====
